---- MODULE Spec2Model ----
(***************************************************************************)
(* Model of the IO22D08 driver class (src/IO22D08.h, src/IO22D08.cpp): the *)
(* output frame buffer (_displayBuffer, _relayBuffer, _displayColon), the  *)
(* display and relay operations on it, and the pin traffic of             *)
(* refreshDisplayAndRelays / enableRelays / disableRelays towards the     *)
(* three daisy-chained shift registers U5 (relays), U3 and U4 (display).  *)
(***************************************************************************)
EXTENDS Integers, Sequences, FiniteSets

VARIABLES
  pc,               \* "constructed" (IO22D08() has run) or "running" (begin() has run)
  _displayBuffer,   \* uint16_t _displayBuffer[numDisplayDigits]
  _relayBuffer,     \* uint8_t _relayBuffer
  _displayColon,    \* bool _displayColon
  pinLevel,         \* level last written to _latchPin and _relayOEpin
  shiftRegs,        \* serial stages of the register chain U5 -> U3 -> U4
  outputRegs,       \* latched (parallel output) stages of U5, U3, U4
  pinEvents,        \* pinMode / digitalWrite / shiftOut calls made by the last call
  lastCall,         \* the last public call: its name and arguments
  ret,              \* the value the last call returned (0 for void)
  allDigitsWritten, \* history: displayNumber or displayMessage has run
  relayShifted      \* history: a refresh has run and _relayBuffer is unchanged since

vars ==
  << pc, _displayBuffer, _relayBuffer, _displayColon, pinLevel, shiftRegs,
     outputRegs, pinEvents, lastCall, ret, allDigitsWritten, relayShifted >>

(***************************************************************************)
(* Bounds of the model (sizes of the input samples).                       *)
(***************************************************************************)
MaxInitWord == 1
MaxNumberSample == 400
MaxRelayNum == 9
MaxSymbolSample == 2

(***************************************************************************)
(* Program constants.                                                      *)
(***************************************************************************)
numDisplayDigits == 4
numRelays == 8
numDisplayMessages == 4
numCharacters == 17
MESSAGE_BLANK == 0
MESSAGE_ON == 1
MESSAGE_OFF == 2
MESSAGE_ERR == 3
RELAY1 == 2^1
RELAY2 == 2^2
RELAY3 == 2^3
RELAY4 == 2^4
RELAY5 == 2^5
RELAY6 == 2^6
RELAY7 == 2^7
RELAY8 == 2^0
RELAYS_ALL == 255
RELAY_ON == 255
RELAY_OFF == 0
LOW == 0
HIGH == 1
_dpSegment == \HDFFF

_characters ==
  LET t == << \H2008, \H7A08, \HE000, \H6200, \H3A00, \H2210, \H2010, \H6A08,
              \H2000, \H2200, \HFA18, \H2008, \H7810, \HA810, \HA010, \HF810,
              \HF218 >>
  IN  [c \in 0..(numCharacters - 1) |-> t[c + 1]]

_digitSelect ==
  LET t == << \H0400, \H0002, \H0004, \H0020 >>
  IN  [n \in 0..(numDisplayDigits - 1) |-> t[n + 1]]

_displayMessages ==
  LET t == << <<10, 10, 10, 10>>, <<10, 10, 11, 12>>,
              <<10, 11, 13, 13>>, <<10, 14, 15, 15>> >>
  IN  [m \in 0..(numDisplayMessages - 1) |->
         [n \in 0..(numDisplayDigits - 1) |-> t[m + 1][n + 1]]]

(***************************************************************************)
(* C integer operators on unsigned values: & and | bit by bit, ~ on a      *)
(* 16-bit operand (uint8_t and uint16_t operands promote to a 16-bit int   *)
(* on the AVR target; the results are truncated by the assignment).        *)
(***************************************************************************)
RECURSIVE BitAnd(_, _)
BitAnd(a, b) ==
  IF a = 0 \/ b = 0 THEN 0
  ELSE (a % 2) * (b % 2) + 2 * BitAnd(a \div 2, b \div 2)

RECURSIVE BitOr(_, _)
BitOr(a, b) ==
  IF a = 0 THEN b
  ELSE IF b = 0 THEN a
  ELSE (IF a % 2 = 1 \/ b % 2 = 1 THEN 1 ELSE 0) + 2 * BitOr(a \div 2, b \div 2)

BitNot(a) == 65535 - a

lowByte(w) == w % 256
highByte(w) == (w \div 256) % 256

(***************************************************************************)
(* The object's data members as one record.                                *)
(***************************************************************************)
Obj == [buf |-> _displayBuffer, relay |-> _relayBuffer, colon |-> _displayColon]

(***************************************************************************)
(* Array accesses.  The code checks no index.  An in-range access has one  *)
(* outcome.  An out-of-range access is undefined behaviour; it is modelled *)
(* by what the AVR build does with it, where the object's layout decides   *)
(* that: the data members lie in declaration order, so _displayBuffer[4]   *)
(* is the two bytes _relayBuffer (low) and _displayColon (high),           *)
(* _characters[17..20] are _digitSelect[0..3], _characters[21] and         *)
(* _digitSelect[4] are _dpSegment.  Further out, a read returns one of a   *)
(* few sample values and a write lands on the constant tables or on        *)
(* memory outside the object, which this model does not hold as state.     *)
(***************************************************************************)
OobWords == {0, \HFFFF}
OobBytes == {10, 255}

loadCharacters(c) ==
  IF c < numCharacters THEN {_characters[c]}
  ELSE IF c < numCharacters + numDisplayDigits THEN {_digitSelect[c - numCharacters]}
  ELSE IF c = numCharacters + numDisplayDigits THEN {_dpSegment}
  ELSE OobWords

loadDigitSelect(n) ==
  IF n < numDisplayDigits THEN {_digitSelect[n]}
  ELSE IF n = numDisplayDigits THEN {_dpSegment}
  ELSE OobWords

loadDisplayMessages(m, n) ==
  IF m < numDisplayMessages THEN {_displayMessages[m][n]} ELSE OobBytes

loadDisplayBuffer(o, n) ==
  IF n < numDisplayDigits THEN {o.buf[n]}
  ELSE IF n = numDisplayDigits THEN {o.relay + 256 * (IF o.colon THEN 1 ELSE 0)}
  ELSE OobWords

storeDisplayBuffer(o, n, w) ==
  IF n < numDisplayDigits THEN {[o EXCEPT !.buf[n] = w]}
  ELSE IF n = numDisplayDigits
  THEN {[o EXCEPT !.relay = lowByte(w), !.colon = (highByte(w) # 0)]}
  ELSE {o}

(***************************************************************************)
(* Display state manager.  Every operator returns the set of objects the   *)
(* call can leave behind (one object when all indices are in range).       *)
(***************************************************************************)
_updateDigitSelectMirrored(o, n) ==
  UNION { storeDisplayBuffer(o, n, BitOr(rs[1], rs[2])) :
            rs \in loadDisplayBuffer(o, n) \X loadDigitSelect(numDisplayDigits - 1 - n) }

_updateDigitSelect(o, n) ==
  UNION { storeDisplayBuffer(o, n, BitOr(rs[1], rs[2])) :
            rs \in loadDisplayBuffer(o, n) \X loadDigitSelect(n) }

_updateDigit(o, n, c) ==
  UNION { storeDisplayBuffer(o, n, w) : w \in loadCharacters(c) }

_updateColon(o) ==
  LET mixed ==
        IF o.colon
        THEN [o EXCEPT !.buf[1] = BitAnd(@, _dpSegment),
                       !.buf[2] = BitAnd(@, _dpSegment)]
        ELSE [o EXCEPT !.buf[1] = BitOr(@, BitNot(_dpSegment)),
                       !.buf[2] = BitOr(@, BitNot(_dpSegment))]
  IN  UNION { _updateDigitSelect(x, 2) : x \in _updateDigitSelect(mixed, 1) }

displayCharacterNoColon(o, n, c) ==
  UNION { _updateDigitSelect(x, n) : x \in _updateDigit(o, n, c) }

displayCharacter(o, n, c) ==
  LET written == UNION { _updateDigitSelect(x, n) : x \in _updateDigit(o, n, c) }
  IN  UNION { _updateColon(y) : y \in written }

RECURSIVE displayNumberLoopNoDivide(_, _, _)
displayNumberLoopNoDivide(o, n, number) ==
  IF n = 0 THEN {o}
  ELSE LET written ==
             UNION { _updateDigitSelect(x, n - 1) :
                       x \in _updateDigit(o, n - 1, number % 10) }
       IN  UNION { displayNumberLoopNoDivide(y, n - 1, number) : y \in written }

RECURSIVE displayNumberLoop(_, _, _)
displayNumberLoop(o, n, number) ==
  IF n = 0 THEN {o}
  ELSE LET written ==
             UNION { _updateDigitSelect(x, n - 1) :
                       x \in _updateDigit(o, n - 1, number % 10) }
       IN  UNION { displayNumberLoop(y, n - 1, number \div 10) : y \in written }

displayNumber(o, number) ==
  UNION { _updateColon(y) : y \in displayNumberLoop(o, numDisplayDigits, number) }

RECURSIVE displayMessageLoop(_, _, _)
displayMessageLoop(o, m, n) ==
  IF n = numDisplayDigits THEN {o}
  ELSE LET written ==
             UNION { _updateDigitSelect(x, n) :
                       x \in UNION { _updateDigit(o, n, c) :
                                       c \in loadDisplayMessages(m, n) } }
       IN  UNION { displayMessageLoop(y, m, n + 1) : y \in written }

displayMessage(o, m) ==
  UNION { _updateColon(y) : y \in displayMessageLoop(o, m, 0) }

setColon(o, state) == _updateColon([o EXCEPT !.colon = state])

toggleColon(o) == _updateColon([o EXCEPT !.colon = ~@])

(***************************************************************************)
(* Relay state manager.                                                    *)
(***************************************************************************)
relayNumToMaskOffByOne(relayNum) ==
  LET n == IF relayNum > 8 THEN 0 ELSE relayNum
  IN  (2^n) % 256

relayNumToMask(relayNum) ==
  LET n == IF relayNum >= 8 THEN 0 ELSE relayNum
  IN  (2^n) % 256

relaySetNoClear(o, mask, state) ==
  [o EXCEPT !.relay = BitOr(o.relay, BitAnd(state, mask)) % 256]

relaySet(o, mask, state) ==
  [o EXCEPT !.relay =
     BitOr(BitAnd(o.relay, BitNot(mask)), BitAnd(state, mask)) % 256]

relaySetN(o, relayNum, state) ==
  relaySet(o, relayNumToMask(relayNum), IF state THEN RELAY_ON ELSE RELAY_OFF)

relayGet(o, mask) == BitAnd(o.relay, mask)

relayIsOn(o, relayNum) == BitAnd(o.relay, relayNumToMask(relayNum)) # 0

(***************************************************************************)
(* Pin traffic.  An event is one call of a platform primitive.             *)
(***************************************************************************)
pinModeEv(pin, mode) == [fn |-> "pinMode", pin |-> pin, val |-> mode]
digitalWriteEv(pin, level) == [fn |-> "digitalWrite", pin |-> pin, val |-> level]
shiftOutEv(byte) == [fn |-> "shiftOut", pin |-> "_dataPin", val |-> byte]

refreshGroupHighFirst(d, relay) ==
  << digitalWriteEv("_latchPin", LOW),
     shiftOutEv(highByte(d)),
     shiftOutEv(lowByte(d)),
     shiftOutEv(relay),
     digitalWriteEv("_latchPin", HIGH) >>

refreshGroup(d, relay) ==
  << digitalWriteEv("_latchPin", LOW),
     shiftOutEv(lowByte(d)),
     shiftOutEv(highByte(d)),
     shiftOutEv(relay),
     digitalWriteEv("_latchPin", HIGH) >>

RECURSIVE refreshLoop(_, _)
refreshLoop(o, p) ==
  IF p = numDisplayDigits THEN << >>
  ELSE refreshGroup(o.buf[p], o.relay) \o refreshLoop(o, p + 1)

refreshDisplayAndRelays(o) == refreshLoop(o, 0)

enableRelays == << digitalWriteEv("_relayOEpin", LOW) >>

disableRelaysActiveHigh == << digitalWriteEv("_relayOEpin", LOW) >>

disableRelays == << digitalWriteEv("_relayOEpin", HIGH) >>

begin ==
  << pinModeEv("_latchPin", "OUTPUT"),
     pinModeEv("_clockPin", "OUTPUT"),
     pinModeEv("_dataPin", "OUTPUT"),
     pinModeEv("inputPins", "INPUT_PULLUP"),
     pinModeEv("buttonPins", "INPUT_PULLUP") >>
  \o disableRelays
  \o << pinModeEv("_relayOEpin", "OUTPUT") >>

(***************************************************************************)
(* The board: what the pin traffic does to the three shift registers.  A   *)
(* shifted byte enters U5 and pushes the chain on towards U3 and U4; the   *)
(* rising edge of the shared latch copies every serial stage to its        *)
(* output stage; U5's outputs drive the relays while its output enable     *)
(* (active low) is asserted.                                               *)
(***************************************************************************)
Board == [level |-> pinLevel, shift |-> shiftRegs, out |-> outputRegs]

boardStep(b, e) ==
  IF e.fn = "shiftOut"
  THEN [b EXCEPT !.shift = [U5 |-> e.val, U3 |-> b.shift.U5, U4 |-> b.shift.U3]]
  ELSE IF e.fn = "digitalWrite"
  THEN [b EXCEPT !.level[e.pin] = e.val,
                 !.out = IF e.pin = "_latchPin" /\ b.level["_latchPin"] = LOW
                            /\ e.val = HIGH
                         THEN b.shift ELSE @]
  ELSE b

RECURSIVE boardRun(_, _)
boardRun(b, events) ==
  IF events = << >> THEN b
  ELSE boardRun(boardStep(b, Head(events)), Tail(events))

RelayOutputs ==
  IF pinLevel["_relayOEpin"] = LOW THEN outputRegs.U5 ELSE 0

(***************************************************************************)
(* Construction.  _relayBuffer and _displayColon have member initialisers; *)
(* _displayBuffer has none and the constructor body is empty, so the four  *)
(* digit words start as whatever the storage holds: zero for an object of  *)
(* static storage duration, indeterminate otherwise.  The registers are    *)
(* taken to power up cleared.                                              *)
(***************************************************************************)
InitWords == { (k * 65535) % 65536 : k \in 0..MaxInitWord }

Init ==
  /\ pc = "constructed"
  /\ _displayBuffer \in [0..(numDisplayDigits - 1) -> InitWords]
  /\ _relayBuffer = 0
  /\ _displayColon = FALSE
  /\ pinLevel = [p \in {"_latchPin", "_relayOEpin"} |-> LOW]
  /\ shiftRegs = [U5 |-> 0, U3 |-> 0, U4 |-> 0]
  /\ outputRegs = [U5 |-> 0, U3 |-> 0, U4 |-> 0]
  /\ pinEvents = << >>
  /\ lastCall = [op |-> "IO22D08", a |-> 0, b |-> 0]
  /\ ret = 0
  /\ allDigitsWritten = FALSE
  /\ relayShifted = FALSE

(***************************************************************************)
(* Construction of an object of static storage duration (the usual         *)
(* file-scope instance of a sketch): the storage is zeroed first.          *)
(***************************************************************************)
InitStatic ==
  /\ Init
  /\ _displayBuffer = [n \in 0..(numDisplayDigits - 1) |-> 0]

(***************************************************************************)
(* One public call: the object it leaves, the pin traffic it makes (run    *)
(* through the board), its name, arguments and return value.               *)
(***************************************************************************)
Call(o, events, op, a, b, r) ==
  /\ _displayBuffer' = o.buf
  /\ _relayBuffer' = o.relay
  /\ _displayColon' = o.colon
  /\ LET nb == boardRun(Board, events)
     IN  /\ pinLevel' = nb.level
         /\ shiftRegs' = nb.shift
         /\ outputRegs' = nb.out
  /\ pinEvents' = events
  /\ lastCall' = [op |-> op, a |-> a, b |-> b]
  /\ ret' = r
  /\ UNCHANGED pc

B2N(x) == IF x THEN 1 ELSE 0

Begin ==
  /\ pc = "constructed"
  /\ pc' = "running"
  /\ _displayBuffer' = _displayBuffer
  /\ _relayBuffer' = _relayBuffer
  /\ _displayColon' = _displayColon
  /\ LET nb == boardRun(Board, begin)
     IN  /\ pinLevel' = nb.level
         /\ shiftRegs' = nb.shift
         /\ outputRegs' = nb.out
  /\ pinEvents' = begin
  /\ lastCall' = [op |-> "begin", a |-> 0, b |-> 0]
  /\ ret' = 0
  /\ UNCHANGED << allDigitsWritten, relayShifted >>

DisplayCharacter(n, c) ==
  /\ pc = "running"
  /\ \E o \in displayCharacter(Obj, n, c) :
       /\ Call(o, << >>, "displayCharacter", n, c, 0)
       /\ relayShifted' = (relayShifted /\ o.relay = _relayBuffer)
  /\ UNCHANGED allDigitsWritten

DisplayNumber(number) ==
  /\ pc = "running"
  /\ \E o \in displayNumber(Obj, number) :
       Call(o, << >>, "displayNumber", number, 0, 0)
  /\ allDigitsWritten' = TRUE
  /\ UNCHANGED relayShifted

DisplayMessage(m) ==
  /\ pc = "running"
  /\ \E o \in displayMessage(Obj, m) :
       Call(o, << >>, "displayMessage", m, 0, 0)
  /\ allDigitsWritten' = TRUE
  /\ UNCHANGED relayShifted

SetColon(state) ==
  /\ pc = "running"
  /\ \E o \in setColon(Obj, state) :
       Call(o, << >>, "setColon", B2N(state), 0, 0)
  /\ UNCHANGED << allDigitsWritten, relayShifted >>

ToggleColon ==
  /\ pc = "running"
  /\ \E o \in toggleColon(Obj) :
       Call(o, << >>, "toggleColon", 0, 0, 0)
  /\ UNCHANGED << allDigitsWritten, relayShifted >>

RefreshDisplayAndRelays ==
  /\ pc = "running"
  /\ Call(Obj, refreshDisplayAndRelays(Obj), "refreshDisplayAndRelays", 0, 0, 0)
  /\ relayShifted' = TRUE
  /\ UNCHANGED allDigitsWritten

EnableRelays ==
  /\ pc = "running"
  /\ Call(Obj, enableRelays, "enableRelays", 0, 0, 0)
  /\ UNCHANGED << allDigitsWritten, relayShifted >>

DisableRelays ==
  /\ pc = "running"
  /\ Call(Obj, disableRelays, "disableRelays", 0, 0, 0)
  /\ UNCHANGED << allDigitsWritten, relayShifted >>

RelaySet(mask, state) ==
  /\ pc = "running"
  /\ LET o == relaySet(Obj, mask, state)
     IN  /\ Call(o, << >>, "relaySet", mask, state, 0)
         /\ relayShifted' = (relayShifted /\ o.relay = _relayBuffer)
  /\ UNCHANGED allDigitsWritten

RelaySetN(relayNum, state) ==
  /\ pc = "running"
  /\ LET o == relaySetN(Obj, relayNum, state)
     IN  /\ Call(o, << >>, "relaySetN", relayNum, B2N(state), 0)
         /\ relayShifted' = (relayShifted /\ o.relay = _relayBuffer)
  /\ UNCHANGED allDigitsWritten

RelayNumToMask(relayNum) ==
  /\ pc = "running"
  /\ Call(Obj, << >>, "relayNumToMask", relayNum, 0, relayNumToMask(relayNum))
  /\ UNCHANGED << allDigitsWritten, relayShifted >>

RelayGet(mask) ==
  /\ pc = "running"
  /\ Call(Obj, << >>, "relayGet", mask, 0, relayGet(Obj, mask))
  /\ UNCHANGED << allDigitsWritten, relayShifted >>

RelayIsOn(relayNum) ==
  /\ pc = "running"
  /\ Call(Obj, << >>, "relayIsOn", relayNum, 0, B2N(relayIsOn(Obj, relayNum)))
  /\ UNCHANGED << allDigitsWritten, relayShifted >>

(***************************************************************************)
(* Input samples.                                                          *)
(***************************************************************************)
Positions == 0..(numDisplayDigits - 1)
Symbols == 0..(numCharacters - 1)
Messages == 0..(numDisplayMessages - 1)
SymbolSample == { (k * 8) % numCharacters : k \in 0..MaxSymbolSample }
NumberSample ==
  {0, 9999, 10000, 65535} \cup { (k * 167) % 65536 : k \in 1..MaxNumberSample }
RelayNums == (0..MaxRelayNum) \cup {255}
ByteSample == { \H00, \HFF, \H0F, \HA5, \H01, \H80, \HF0 }

(***************************************************************************)
(* The whole board, driven with a small sample of every operation.         *)
(***************************************************************************)
Next ==
  \/ Begin
  \/ DisplayCharacter(3, 8)
  \/ DisplayMessage(MESSAGE_ON)
  \/ SetColon(TRUE)
  \/ RefreshDisplayAndRelays
  \/ EnableRelays
  \/ DisableRelays
  \/ RelaySet(RELAYS_ALL, RELAY_OFF)
  \/ \E n \in {1, 8} : \E s \in BOOLEAN : RelaySetN(n, s)

Spec == Init /\ [][Next]_vars

(***************************************************************************)
(* The display state manager alone.                                        *)
(***************************************************************************)
NextDisplay ==
  \/ Begin
  \/ \E n \in Positions : \E c \in SymbolSample : DisplayCharacter(n, c)
  \/ \E number \in {0, 1234, 65535} : DisplayNumber(number)
  \/ \E m \in Messages : DisplayMessage(m)
  \/ \E s \in BOOLEAN : SetColon(s)
  \/ ToggleColon

SpecDisplay == Init /\ [][NextDisplay]_vars

NextNumber ==
  \/ Begin
  \/ \E number \in NumberSample : DisplayNumber(number)
  \/ \E s \in BOOLEAN : SetColon(s)
  \/ ToggleColon

SpecNumber == Init /\ [][NextNumber]_vars

(***************************************************************************)
(* The relay state manager alone.                                          *)
(***************************************************************************)
NextRelay ==
  \/ Begin
  \/ \E m \in ByteSample : \E s \in ByteSample : RelaySet(m, s)
  \/ \E n \in RelayNums : \E s \in BOOLEAN : RelaySetN(n, s)
  \/ \E n \in RelayNums : RelayNumToMask(n)
  \/ \E m \in ByteSample : RelayGet(m)
  \/ \E n \in RelayNums : RelayIsOn(n)

SpecRelay == InitStatic /\ [][NextRelay]_vars

(***************************************************************************)
(* Callers that break the contract: an out-of-range digit position,        *)
(* symbol index or message id.                                             *)
(***************************************************************************)
NextContract ==
  \/ Begin
  \/ \E n \in {0, numDisplayDigits} : \E c \in {8, numCharacters} :
       DisplayCharacter(n, c)
  \/ \E m \in {MESSAGE_ON, numDisplayMessages} : DisplayMessage(m)
  \/ \E s \in BOOLEAN : SetColon(s)
  \/ RelaySetN(1, TRUE)

SpecContract == InitStatic /\ [][NextContract]_vars

TypeOK ==
  /\ pc \in {"constructed", "running"}
  /\ _displayBuffer \in [Positions -> 0..65535]
  /\ _relayBuffer \in 0..255
  /\ _displayColon \in BOOLEAN
  /\ ret \in 0..255

(***************************************************************************)
(* Vocabulary of the properties.                                           *)
(***************************************************************************)
Bit(x, i) == (x \div (2^i)) % 2

DisplayOps ==
  {"displayCharacter", "displayNumber", "displayMessage", "setColon", "toggleColon"}

\* bit 13 (0x2000) drives the colon LEDs, active low
ColonAsserted(w) == Bit(w, 13) = 0

\* the four digit-select bits 0x0400, 0x0002, 0x0004, 0x0020
SelectBits(w) == { i \in {10, 1, 2, 5} : Bit(w, i) = 1 }

\* a word without its digit-select and colon bits: the segments it lights
Segments(w) ==
  { i \in (0..15) \ {10, 1, 2, 5, 13} : Bit(w, i) = 0 }

(***************************************************************************)
(* C1: one call of refreshDisplayAndRelays emits, for p = 0, 1, 2, 3 in    *)
(* that order, latch LOW, the low byte of digit word p, its high byte, the *)
(* relay byte, latch HIGH, and nothing else (12 bytes, 4 latch pulses, the *)
(* same relay byte in all four groups), and leaves the digit words, the    *)
(* relay byte and the colon flag as they were.                             *)
(***************************************************************************)
C1_Frame(buf, r) ==
  [i \in 1..20 |->
     LET p == (i - 1) \div 5
         k == (i - 1) % 5
     IN  CASE k = 0 -> [fn |-> "digitalWrite", pin |-> "_latchPin", val |-> 0]
           [] k = 1 -> [fn |-> "shiftOut", pin |-> "_dataPin", val |-> buf[p] % 256]
           [] k = 2 -> [fn |-> "shiftOut", pin |-> "_dataPin", val |-> buf[p] \div 256]
           [] k = 3 -> [fn |-> "shiftOut", pin |-> "_dataPin", val |-> r]
           [] k = 4 -> [fn |-> "digitalWrite", pin |-> "_latchPin", val |-> 1]]

C1_RefreshFrame ==
  [][ lastCall'.op = "refreshDisplayAndRelays" =>
        /\ pinEvents' = C1_Frame(_displayBuffer, _relayBuffer)
        /\ _displayBuffer' = _displayBuffer
        /\ _relayBuffer' = _relayBuffer
        /\ _displayColon' = _displayColon ]_vars

C1_Witness ==
  /\ lastCall.op = "refreshDisplayAndRelays"
  /\ allDigitsWritten
  /\ _relayBuffer # 0
  /\ Len(pinEvents) = 20
  /\ pinEvents[2].val # pinEvents[3].val
  /\ outputRegs = [U5 |-> _relayBuffer, U3 |-> _displayBuffer[3] \div 256,
                   U4 |-> _displayBuffer[3] % 256]

C3_Original ==
  [][ /\ lastCall'.op = "disableRelays" =>
           (_relayBuffer' = _relayBuffer /\ RelayOutputs' = 0)
      /\ (lastCall.op = "disableRelays" /\ lastCall'.op = "enableRelays") =>
           RelayOutputs' = _relayBuffer ]_vars

(***************************************************************************)
(* C3 as amended: disableRelays, once or twice in a row, leaves the relay  *)
(* byte and the latched register as they were and forces every relay off;  *)
(* an enableRelays that follows leaves the relay byte as it was and makes  *)
(* the relay outputs equal the byte latched in the relay register, which   *)
(* is the relay byte of the buffer when refreshDisplayAndRelays has run    *)
(* since the relay byte last changed.                                      *)
(***************************************************************************)
C3_EnableResumesLatched ==
  [][ /\ lastCall'.op = "disableRelays" =>
           /\ _relayBuffer' = _relayBuffer
           /\ outputRegs' = outputRegs
           /\ RelayOutputs' = 0
      /\ (lastCall.op = "disableRelays" /\ lastCall'.op = "enableRelays") =>
           /\ _relayBuffer' = _relayBuffer
           /\ RelayOutputs' = outputRegs.U5
           /\ (relayShifted => RelayOutputs' = _relayBuffer) ]_vars

C3_Witness ==
  /\ lastCall.op = "enableRelays"
  /\ relayShifted
  /\ _relayBuffer # 0
  /\ RelayOutputs = _relayBuffer

(***************************************************************************)
(* C4: after every public display operation with valid arguments, the      *)
(* colon bit (0x2000, active low) of digit words 1 and 2 is clear exactly  *)
(* when the colon flag is true; in particular a displayCharacter on any    *)
(* position with any of the 17 symbols leaves it so.                       *)
(***************************************************************************)
C4_ColonOf(o) == \A p \in {1, 2} : ColonAsserted(o.buf[p]) <=> o.colon

C4_ColonFollowsFlag ==
  lastCall.op \in DisplayOps =>
    /\ C4_ColonOf(Obj)
    /\ \A n \in Positions : \A c \in Symbols :
         \A o \in displayCharacter(Obj, n, c) : C4_ColonOf(o)

C4_Witness ==
  /\ lastCall.op = "displayCharacter"
  /\ lastCall.a = 1
  /\ _displayColon
  /\ ColonAsserted(_displayBuffer[1])
  /\ Segments(_displayBuffer[1]) = Segments(_characters[lastCall.b])

(***************************************************************************)
(* C5: after displayNumber(v), for every 16-bit v, digit word p is the     *)
(* pattern of decimal digit (v / 10^(3-p)) mod 10 with the digit-select    *)
(* bit of p (and the colon bit of words 1 and 2 per the colon flag), so    *)
(* the four words read back as the decimal digits of v mod 10000.          *)
(***************************************************************************)
C5_DigitOf(w) == CHOOSE d \in 0..9 : Segments(w) = Segments(_characters[d])

C5_Word(v, p, colon) ==
  _characters[(v \div (10^(3 - p))) % 10] + _digitSelect[p]
    - (IF p \in {1, 2} /\ colon THEN \H2000 ELSE 0)

C5_NumberShown ==
  lastCall.op = "displayNumber" =>
    LET v == lastCall.a
    IN  /\ \A p \in Positions : _displayBuffer[p] = C5_Word(v, p, _displayColon)
        /\ v = 0 =>
             \A w \in 0..65535 :
               displayNumber(Obj, w) =
                 { [Obj EXCEPT !.buf = [p \in Positions |-> C5_Word(w, p, _displayColon)]] }
        /\ \A p \in Positions :
             Cardinality({ d \in 0..9 :
               Segments(_displayBuffer[p]) = Segments(_characters[d]) }) = 1
        /\ 1000 * C5_DigitOf(_displayBuffer[0]) + 100 * C5_DigitOf(_displayBuffer[1])
             + 10 * C5_DigitOf(_displayBuffer[2]) + C5_DigitOf(_displayBuffer[3])
           = v % 10000

C5_Witness ==
  /\ lastCall.op = "displayNumber"
  /\ lastCall.a = 65535
  /\ _displayColon
  /\ C5_DigitOf(_displayBuffer[0]) = 5
  /\ C5_DigitOf(_displayBuffer[3]) = 5

(***************************************************************************)
(* C6: relayNumToMask(n) is the single bit of the fixed relay mapping: bit *)
(* n (RELAYn) for n in 1..7, bit 0 (RELAY8) for n = 8, eight distinct bits *)
(* for relays 1..8, and bit 0 for every other n in 0..255, so              *)
(* relaySetN(0, s) and relaySetN(n >= 9, s) switch relay 8.                *)
(***************************************************************************)
C6_RelayMask(n) ==
  CASE n = 1 -> RELAY1 [] n = 2 -> RELAY2 [] n = 3 -> RELAY3 [] n = 4 -> RELAY4
    [] n = 5 -> RELAY5 [] n = 6 -> RELAY6 [] n = 7 -> RELAY7 [] n = 8 -> RELAY8
    [] OTHER -> 1

C6_RelayMapping ==
  /\ lastCall.op = "relayNumToMask" =>
       /\ ret = C6_RelayMask(lastCall.a)
       /\ Cardinality({ i \in 0..7 : Bit(ret, i) = 1 }) = 1
       /\ \A n \in 0..255 : relayNumToMask(n) = C6_RelayMask(n)
       /\ \A m, n \in 1..8 : m # n => relayNumToMask(m) # relayNumToMask(n)
  /\ lastCall.op = "relaySetN" =>
       Bit(_relayBuffer, IF lastCall.a \in 1..7 THEN lastCall.a ELSE 0) = lastCall.b

C6_Witness ==
  /\ lastCall = [op |-> "relaySetN", a |-> 255, b |-> 1]
  /\ Bit(_relayBuffer, 0) = 1
  /\ Bit(_relayBuffer, 7) = 0

(***************************************************************************)
(* C7 as claimed: displayCharacter(p, c) with p in 0..3 and c in 0..16, in *)
(* every state after begin(), leaves the digit words of the other three    *)
(* positions, the relay byte and the colon flag as they were.              *)
(***************************************************************************)
C7_SingleDigit ==
  [][ lastCall'.op = "displayCharacter" =>
        /\ \A q \in Positions \ {lastCall'.a} : _displayBuffer'[q] = _displayBuffer[q]
        /\ _relayBuffer' = _relayBuffer
        /\ _displayColon' = _displayColon ]_vars

(***************************************************************************)
(* C8 as claimed: directly after begin() each digit word holds the blank   *)
(* pattern (symbol 10), the relay byte is 0, the colon flag is false and   *)
(* the relay output enable is in the disabled state.                       *)
(***************************************************************************)
C8_BlankAfterBegin ==
  lastCall.op = "begin" =>
    /\ \A p \in Positions : _displayBuffer[p] = _characters[10]
    /\ _relayBuffer = 0
    /\ _displayColon = FALSE
    /\ pinLevel["_relayOEpin"] = HIGH

(***************************************************************************)
(* C9 as claimed: a displayCharacter with position >= 4 or symbol >= 17,   *)
(* or a displayMessage with id >= 4, leaves the relay byte and the colon   *)
(* flag as they were and stores in the digit words only patterns of the    *)
(* 17-entry symbol table.                                                  *)
(***************************************************************************)
C9_Violation(call) ==
  \/ call.op = "displayCharacter" /\ (call.a >= numDisplayDigits \/ call.b >= numCharacters)
  \/ call.op = "displayMessage" /\ call.a >= numDisplayMessages

C9_ContractViolationsContained ==
  [][ C9_Violation(lastCall') =>
        /\ _relayBuffer' = _relayBuffer
        /\ _displayColon' = _displayColon
        /\ \A p \in Positions :
             _displayBuffer'[p] # _displayBuffer[p] =>
               \E c \in Symbols : Segments(_displayBuffer'[p]) = Segments(_characters[c]) ]_vars

(***************************************************************************)
(* C10: once displayNumber or displayMessage has written all four digits,  *)
(* then after any further valid display operations digit word p has the    *)
(* digit-select bit of position p set and none of the other three, so the  *)
(* four words select four different digits.                                *)
(***************************************************************************)
C10_OneSelectPerDigit ==
  allDigitsWritten =>
    /\ \A p \in Positions : SelectBits(_displayBuffer[p]) = SelectBits(_digitSelect[p])
    /\ \A p \in Positions : Cardinality(SelectBits(_displayBuffer[p])) = 1
    /\ \A p, q \in Positions :
         p # q => SelectBits(_displayBuffer[p]) # SelectBits(_displayBuffer[q])

C10_Witness ==
  /\ allDigitsWritten
  /\ lastCall = [op |-> "displayCharacter", a |-> 2, b |-> 16]
  /\ SelectBits(_displayBuffer[2]) = {2}
  /\ SelectBits(_displayBuffer[0]) = {10}

====
